---- MODULE Spec2Model ----
(***************************************************************************)
(* plmap: a lazy, order-preserving parallel map over an iterator.          *)
(*                                                                         *)
(* The model covers both engines of the crate, Pipeline (pipeline.rs) and  *)
(* ScopedPipeline (scoped_pipeline.rs): construction of the worker pool,   *)
(* the refill/collect protocol of next(), the worker loop, and Drop.       *)
(* A consumer builds an engine, calls next() any number of times, and      *)
(* drops the engine; it may then build the other engine over the same      *)
(* input.                                                                  *)
(*                                                                         *)
(* Channels are crossbeam channels: the dispatch channel has capacity 0    *)
(* (a send completes only when a worker receives), every response channel  *)
(* has capacity 1.  A failing capability application is a panic of the     *)
(* thread that runs it; unwinding drops the handles the thread owns.       *)
(***************************************************************************)
EXTENDS Integers, Sequences, FiniteSets, TLC

\* ---------------------------------------------------------------- bounds
MaxWorkers == 2
MaxLen == 3
MaxNone == 2

Values == {0, 1}
Variants == {"owned", "scoped"}
Workers == 1..MaxWorkers
Inputs == UNION {[1..k -> Values] : k \in 0..MaxLen}

VARIABLES
    S,            \* the input sequence the iterator `input` yields
    FailOn,       \* the input values on which the capability panics
    built,        \* the kinds of engine constructed so far
    variant,      \* which engine is in use: Pipeline or ScopedPipeline
    reqW,         \* the n_workers argument of new()
    pc,           \* position of the consumer thread
    unwinding,    \* drop() runs while a panic of next() unwinds
    fault,        \* "none", or where the consumer thread panicked
    cursor,       \* number of elements pulled from `input`
    queue,        \* self.queue: response receivers, by slot index
    pending,      \* the work item the consumer is blocked sending
    cur,          \* the slot popped by next() and being received on
    slots,        \* the response channels, one per pulled element
    senderAlive,  \* self.dispatch is the live sender (not the dummy)
    workers,      \* self.workers: the join handles, in spawn order
    wstate,       \* the state of each worker thread
    witem,        \* the work item a busy worker holds
    out,          \* the values next() has returned as Some(_)
    outIdx,       \* the slot each returned value was received from
    noneCount,    \* number of next() calls that returned None
    applied,      \* per worker: the slots whose input its duplicate applied
    masterApplied,\* the input positions self.mapper was applied to
    sent,         \* number of completed sends on the dispatch channel
    joinCount,    \* per worker: number of join() calls on its handle
    stopLen       \* per variant and pool size: queue length at which
                  \* the refill loop's length test became false

vars == <<S, FailOn, built, variant, reqW, pc, unwinding, fault, cursor,
          queue, pending, cur, slots, senderAlive, workers, wstate, witem,
          out, outIdx, noneCount, applied, masterApplied, sent, joinCount,
          stopLen>>

\* ------------------------------------------------------------ capability
\* The capability of the crate's tests and examples: |x| x * 2.
Apply(x) == x * 2

\* The application panics on this input.
Fails(x) == x \in FailOn

\* --------------------------------------------------------- construction
\* Pipeline::new spawns one thread per requested worker.
OwnedWorkerCount(w) == w

\* A pool clamped from below instead of from above: n_workers.max(1).
ScopedWorkerCountMax(w) == IF w < 1 THEN 1 ELSE w

\* ScopedPipeline::new first rebinds n_workers to n_workers.min(1).
ScopedWorkerCount(w) == IF w < 1 THEN w ELSE 1

WorkerCount(v, w) ==
    IF v = "scoped" THEN ScopedWorkerCount(w) ELSE OwnedWorkerCount(w)

\* ---------------------------------------------------------------- refill
\* A refill loop that looks one element further ahead.
OwnedRefillGuardWide(qlen, nw) == qlen <= nw + 1

\* Pipeline::next: while self.queue.len() <= self.workers.len()
OwnedRefillGuard(qlen, nw) == qlen <= nw

\* ScopedPipeline::next: while self.queue.len() < self.workers.len()
ScopedRefillGuard(qlen, nw) == qlen < nw

RefillGuard(v, qlen, nw) ==
    IF v = "scoped" THEN ScopedRefillGuard(qlen, nw)
    ELSE OwnedRefillGuard(qlen, nw)

\* ------------------------------------------------------------- channels
NoSlot == [made |-> FALSE, full |-> FALSE, val |-> 0, tx |-> FALSE, rx |-> FALSE]

\* crossbeam_channel::bounded(1): empty, both handles alive.
FreshSlot == [made |-> TRUE, full |-> FALSE, val |-> 0, tx |-> TRUE, rx |-> TRUE]

NoItem == [val |-> 0, tx |-> 0]

\* VecDeque::push_front in place of push_back.
PushFront(q, x) == <<x>> \o q

\* The back of the queue in place of its front.
Back(q) == q[Len(q)]

\* VecDeque::push_back and VecDeque::pop_front.
PushBack(q, x) == Append(q, x)
Front(q) == Head(q)

\* A worker thread still inside its loop holds a clone of dispatch_rx.
Running(i) == wstate[i] \in {"recv", "busy"}
ReceiversAlive == \E i \in Workers : Running(i)

\* Dropping self.queue drops every receiver it still holds.
DropReceivers(sl, q) ==
    [k \in DOMAIN sl |->
        IF \E j \in 1..Len(q) : q[j] = k THEN [sl[k] EXCEPT !.rx = FALSE] ELSE sl[k]]

\* A drop() that keeps the live dispatch sender.
DispatchKept == TRUE

\* drop(): self.dispatch = dummy drops the live dispatch sender.
DispatchAfterDrop == FALSE

\* A drop() that clears self.queue before joining.
QueueCleared(sl, q) == DropReceivers(sl, q)

\* drop() does not touch self.queue: its receivers live until drop() returns.
QueueDuringJoin(sl, q) == sl

\* A join whose error is discarded instead of unwrapped.
JoinSwallowed(ws) == FALSE

\* worker.join() returns Err, and unwrap() panics, for a thread that panicked.
JoinPanics(ws) == ws = "panicked"

\* join() returns once the thread has ended, by return or by panic.
Terminated(ws) == ws \in {"exited", "panicked"}

\* The engine testing its queue where it should test its pool.
QueueIsEmpty(ws) == queue = <<>>

\* self.workers.is_empty()
NoWorkers(ws) == ws = <<>>

\* A worker that serves one item and leaves (if let in place of while let).
LeaveAfterOne == "exited"

\* The worker loop: after respond.send(..) the thread is back in recv().
AfterRespond == "recv"

\* The capacity of the dispatch channel: crossbeam_channel::bounded(0).
DispatchCapacity == 0

\* The capacity of a response channel: crossbeam_channel::bounded(1).
SlotCapacity == 1

\* respond.send(..) on slot k does not block: the channel has room, or (for
\* a channel without room) the consumer is receiving on it.
SlotRoom(k) ==
    \/ (IF slots[k].full THEN 1 ELSE 0) < SlotCapacity
    \/ (pc = "recv" /\ cur = k)

\* An iterator that consumes two elements per call.
PullTwo(c) == c + 2

\* self.input.next() consumes one element.
Pull(c) == c + 1

\* A queue emptied instead of popped.
Cleared(q) == <<>>

\* VecDeque::pop_front: the queue it leaves.
PopFront(q) == Tail(q)

EmptyStop == [v \in Variants |-> [n \in 0..MaxWorkers |-> 0]]

\* ------------------------------------------------------------------ Init
Init ==
    /\ S \in Inputs
    /\ FailOn \in SUBSET Values
    /\ built = {}
    /\ variant = "owned"
    /\ reqW = 0
    /\ pc = "init"
    /\ unwinding = FALSE
    /\ fault = "none"
    /\ cursor = 0
    /\ queue = <<>>
    /\ pending = NoItem
    /\ cur = 0
    /\ slots = [k \in 1..MaxLen |-> NoSlot]
    /\ senderAlive = FALSE
    /\ workers = <<>>
    /\ wstate = [i \in Workers |-> "none"]
    /\ witem = [i \in Workers |-> NoItem]
    /\ out = <<>>
    /\ outIdx = <<>>
    /\ noneCount = 0
    /\ applied = [i \in Workers |-> <<>>]
    /\ masterApplied = <<>>
    /\ sent = 0
    /\ joinCount = [i \in Workers |-> 0]
    /\ stopLen = EmptyStop

\* ------------------------------------------------------------------- new
\* Pipeline::new / ScopedPipeline::new: create the rendezvous dispatch
\* channel, spawn the worker threads (each starts in dispatch_rx.recv()),
\* and build the engine with an empty queue.  Nothing is pulled from input.
New(v, w) ==
    /\ pc = "init" \/ (pc = "released" /\ fault = "none")
    /\ v \notin built
    /\ built' = built \cup {v}
    /\ variant' = v
    /\ reqW' = w
    /\ workers' = [i \in 1..WorkerCount(v, w) |-> i]
    /\ wstate' = [i \in Workers |-> IF i <= WorkerCount(v, w) THEN "recv" ELSE "none"]
    /\ witem' = [i \in Workers |-> NoItem]
    /\ senderAlive' = TRUE
    /\ pc' = "ready"
    /\ unwinding' = FALSE
    /\ cursor' = 0
    /\ queue' = <<>>
    /\ pending' = NoItem
    /\ cur' = 0
    /\ slots' = [k \in 1..MaxLen |-> NoSlot]
    /\ out' = <<>>
    /\ outIdx' = <<>>
    /\ noneCount' = 0
    /\ applied' = [i \in Workers |-> <<>>]
    /\ masterApplied' = <<>>
    /\ sent' = 0
    /\ joinCount' = [i \in Workers |-> 0]
    /\ UNCHANGED <<S, FailOn, fault, stopLen>>

\* ------------------------------------------------------------------ next
\* next() with no workers: self.input.next().map(|v| self.mapper.apply(v)),
\* run on the caller's thread.
NextSync ==
    /\ pc = "ready"
    /\ NoWorkers(workers)
    /\ IF cursor < Len(S)
       THEN /\ cursor' = Pull(cursor)
            /\ masterApplied' = Append(masterApplied, cursor + 1)
            /\ IF Fails(S[cursor + 1])
               THEN /\ pc' = "panic"
                    /\ fault' = "next"
                    /\ UNCHANGED <<out, outIdx>>
               ELSE /\ out' = Append(out, Apply(S[cursor + 1]))
                    /\ outIdx' = Append(outIdx, cursor + 1)
                    /\ UNCHANGED <<pc, fault>>
            /\ UNCHANGED noneCount
       ELSE /\ noneCount < MaxNone
            /\ noneCount' = noneCount + 1
            /\ UNCHANGED <<cursor, masterApplied, pc, fault, out, outIdx>>
    /\ UNCHANGED <<S, FailOn, built, variant, reqW, unwinding, queue, pending,
                   cur, slots, senderAlive, workers, wstate, witem, applied,
                   sent, joinCount, stopLen>>

\* next() with workers: enter the refill loop.
NextBegin ==
    /\ pc = "ready"
    /\ ~NoWorkers(workers)
    /\ noneCount < MaxNone
    /\ pc' = "refill"
    /\ UNCHANGED <<S, FailOn, built, variant, reqW, unwinding, fault, cursor,
                   queue, pending, cur, slots, senderAlive, workers, wstate,
                   witem, out, outIdx, noneCount, applied, masterApplied, sent,
                   joinCount, stopLen>>

\* One iteration of the refill loop up to the blocking send: the length test
\* holds and input.next() is Some(v); create the response channel, push its
\* receiver, and start dispatch.send((v, tx)).
RefillPush ==
    /\ pc = "refill"
    /\ RefillGuard(variant, Len(queue), Len(workers))
    /\ cursor < Len(S)
    /\ cursor' = Pull(cursor)
    /\ slots' = [slots EXCEPT ![cursor + 1] = FreshSlot]
    /\ queue' = PushBack(queue, cursor + 1)
    /\ pending' = [val |-> S[cursor + 1], tx |-> cursor + 1]
    /\ pc' = "send"
    /\ UNCHANGED <<S, FailOn, built, variant, reqW, unwinding, fault, cur,
                   senderAlive, workers, wstate, witem, out, outIdx, noneCount,
                   applied, masterApplied, sent, joinCount, stopLen>>

\* The refill loop ends (length test false, or input.next() is None) and
\* self.queue.pop_front() runs: None ends the call, Some(rx) starts rx.recv().
RefillEnd ==
    /\ pc = "refill"
    /\ ~RefillGuard(variant, Len(queue), Len(workers)) \/ cursor >= Len(S)
    /\ stopLen' = IF ~RefillGuard(variant, Len(queue), Len(workers))
                  THEN [stopLen EXCEPT ![variant][Len(workers)] = Len(queue)]
                  ELSE stopLen
    /\ IF queue = <<>>
       THEN /\ noneCount' = noneCount + 1
            /\ pc' = "ready"
            /\ UNCHANGED <<queue, cur>>
       ELSE /\ cur' = Front(queue)
            /\ queue' = PopFront(queue)
            /\ pc' = "recv"
            /\ UNCHANGED noneCount
    /\ UNCHANGED <<S, FailOn, built, variant, reqW, unwinding, fault, cursor,
                   pending, slots, senderAlive, workers, wstate, witem, out,
                   outIdx, applied, masterApplied, sent, joinCount>>

\* dispatch.send(..) returns Err because every receiver is gone; unwrap()
\* panics.  The returned item, with its response sender, is dropped.
SendFail ==
    /\ pc = "send"
    /\ ~ReceiversAlive
    /\ slots' = [slots EXCEPT ![pending.tx].tx = FALSE]
    /\ pending' = NoItem
    /\ pc' = "panic"
    /\ fault' = "next"
    /\ UNCHANGED <<S, FailOn, built, variant, reqW, unwinding, cursor, queue,
                   cur, senderAlive, workers, wstate, witem, out, outIdx,
                   noneCount, applied, masterApplied, sent, joinCount, stopLen>>

\* rx.recv() returns the value the worker delivered; next() returns Some.
RecvOk ==
    /\ pc = "recv"
    /\ slots[cur].full
    /\ out' = Append(out, slots[cur].val)
    /\ outIdx' = Append(outIdx, cur)
    /\ slots' = [slots EXCEPT ![cur].full = FALSE, ![cur].rx = FALSE]
    /\ cur' = 0
    /\ pc' = "ready"
    /\ UNCHANGED <<S, FailOn, built, variant, reqW, unwinding, fault, cursor,
                   queue, pending, senderAlive, workers, wstate, witem,
                   noneCount, applied, masterApplied, sent, joinCount, stopLen>>

\* rx.recv() returns Err: the channel is empty and its sender was dropped
\* by a panicking worker; unwrap() panics.
RecvFail ==
    /\ pc = "recv"
    /\ ~slots[cur].full
    /\ ~slots[cur].tx
    /\ slots' = [slots EXCEPT ![cur].rx = FALSE]
    /\ pc' = "panic"
    /\ fault' = "next"
    /\ UNCHANGED <<S, FailOn, built, variant, reqW, unwinding, cursor, queue,
                   pending, cur, senderAlive, workers, wstate, witem, out,
                   outIdx, noneCount, applied, masterApplied, sent, joinCount,
                   stopLen>>

\* ------------------------------------------------------------------ drop
\* drop(): the consumer discards the engine between two next() calls, or a
\* panic of next() unwinds through its owner.  self.dispatch is replaced by
\* a dummy sender, which drops the only sender of the dispatch channel.
DropBegin ==
    /\ pc \in {"ready", "panic"}
    /\ unwinding' = (pc = "panic")
    /\ senderAlive' = DispatchAfterDrop
    /\ slots' = QueueDuringJoin(slots, queue)
    /\ pc' = "join"
    /\ UNCHANGED <<S, FailOn, built, variant, reqW, fault, cursor, queue,
                   pending, cur, workers, wstate, witem, out, outIdx,
                   noneCount, applied, masterApplied, sent, joinCount, stopLen>>

\* worker.join() returns Ok for the next handle drained from self.workers.
JoinOk ==
    /\ pc = "join"
    /\ workers # <<>>
    /\ Terminated(wstate[Head(workers)])
    /\ ~JoinPanics(wstate[Head(workers)])
    /\ joinCount' = [joinCount EXCEPT ![Head(workers)] = @ + 1]
    /\ workers' = Tail(workers)
    /\ UNCHANGED <<S, FailOn, built, variant, reqW, pc, unwinding, fault,
                   cursor, queue, pending, cur, slots, senderAlive, wstate,
                   witem, out, outIdx, noneCount, applied, masterApplied, sent,
                   stopLen>>

\* worker.join() returns Err for a worker that panicked; unwrap() panics.
\* While unwinding this is a second panic and the process aborts.  Otherwise
\* the panic leaves drop(): the Drain drops the handles not yet joined
\* (their threads are detached) and the fields, the queue among them, are
\* dropped.
JoinFail ==
    /\ pc = "join"
    /\ workers # <<>>
    /\ Terminated(wstate[Head(workers)])
    /\ JoinPanics(wstate[Head(workers)])
    /\ joinCount' = [joinCount EXCEPT ![Head(workers)] = @ + 1]
    /\ IF unwinding
       THEN /\ pc' = "aborted"
            /\ fault' = "abort"
            /\ workers' = Tail(workers)
            /\ UNCHANGED <<queue, slots>>
       ELSE /\ pc' = "released"
            /\ fault' = "drop"
            /\ workers' = <<>>
            /\ queue' = <<>>
            /\ slots' = DropReceivers(slots, queue)
    /\ UNCHANGED <<S, FailOn, built, variant, reqW, unwinding, cursor,
                   pending, cur, senderAlive, wstate, witem, out, outIdx,
                   noneCount, applied, masterApplied, sent, stopLen>>

\* Every handle is joined: drop() returns and the fields are dropped.
DropEnd ==
    /\ pc = "join"
    /\ workers = <<>>
    /\ pc' = "released"
    /\ queue' = <<>>
    /\ slots' = DropReceivers(slots, queue)
    /\ UNCHANGED <<S, FailOn, built, variant, reqW, unwinding, fault, cursor,
                   pending, cur, senderAlive, workers, wstate, witem, out,
                   outIdx, noneCount, applied, masterApplied, sent, joinCount,
                   stopLen>>

\* ---------------------------------------------------------------- worker
\* dispatch_rx.recv() returns Ok((in_val, respond)): the rendezvous with the
\* consumer's blocked send, which thereby completes.
WorkerRecv(i) ==
    /\ pc = "send"
    /\ wstate[i] = "recv"
    /\ witem' = [witem EXCEPT ![i] = pending]
    /\ wstate' = [wstate EXCEPT ![i] = "busy"]
    /\ pending' = NoItem
    /\ sent' = sent + 1
    /\ pc' = "refill"
    /\ UNCHANGED <<S, FailOn, built, variant, reqW, unwinding, fault, cursor,
                   queue, cur, slots, senderAlive, workers, out, outIdx,
                   noneCount, applied, masterApplied, joinCount, stopLen>>

\* dispatch_rx.recv() returns Err: the dispatch sender is gone; the loop
\* ends and the thread exits.
WorkerExit(i) ==
    /\ pc # "aborted"
    /\ wstate[i] = "recv"
    /\ ~senderAlive
    /\ wstate' = [wstate EXCEPT ![i] = "exited"]
    /\ UNCHANGED <<S, FailOn, built, variant, reqW, pc, unwinding, fault,
                   cursor, queue, pending, cur, slots, senderAlive, workers,
                   witem, out, outIdx, noneCount, applied, masterApplied, sent,
                   joinCount, stopLen>>

\* let out_val = mapper.apply(in_val); respond.send(out_val).unwrap();
\* The send completes as soon as the response channel has room.
\* A panic of apply, or of unwrap when the receiver is gone, ends the thread
\* and drops respond.  Otherwise the value is stored in the response channel
\* and respond is dropped at the end of the iteration.
WorkerApply(i) ==
    /\ pc # "aborted"
    /\ wstate[i] = "busy"
    /\ Fails(witem[i].val) \/ ~slots[witem[i].tx].rx \/ SlotRoom(witem[i].tx)
    /\ applied' = [applied EXCEPT ![i] = Append(@, witem[i].tx)]
    /\ witem' = [witem EXCEPT ![i] = NoItem]
    /\ IF Fails(witem[i].val) \/ ~slots[witem[i].tx].rx
       THEN /\ wstate' = [wstate EXCEPT ![i] = "panicked"]
            /\ slots' = [slots EXCEPT ![witem[i].tx].tx = FALSE]
       ELSE /\ wstate' = [wstate EXCEPT ![i] = AfterRespond]
            /\ slots' = [slots EXCEPT ![witem[i].tx].full = TRUE,
                                      ![witem[i].tx].val = Apply(witem[i].val),
                                      ![witem[i].tx].tx = FALSE]
    /\ UNCHANGED <<S, FailOn, built, variant, reqW, pc, unwinding, fault,
                   cursor, queue, pending, cur, senderAlive, workers, out,
                   outIdx, noneCount, masterApplied, sent, joinCount, stopLen>>

\* ------------------------------------------------------------------ Next
Next ==
    \/ \E v \in Variants, w \in 0..MaxWorkers : New(v, w)
    \/ NextSync
    \/ NextBegin
    \/ RefillPush
    \/ RefillEnd
    \/ SendFail
    \/ RecvOk
    \/ RecvFail
    \/ DropBegin
    \/ JoinOk
    \/ JoinFail
    \/ DropEnd
    \/ \E i \in Workers : WorkerRecv(i)
    \/ \E i \in Workers : WorkerExit(i)
    \/ \E i \in Workers : WorkerApply(i)

Spec == Init /\ [][Next]_vars

\* Fairness: threads that can take a step eventually take it.  The consumer's
\* choices (building an engine, calling next(), dropping) are not forced.
Fairness ==
    /\ WF_vars(RefillPush)
    /\ WF_vars(RefillEnd)
    /\ WF_vars(SendFail)
    /\ WF_vars(RecvOk)
    /\ WF_vars(RecvFail)
    /\ WF_vars(JoinOk)
    /\ WF_vars(JoinFail)
    /\ WF_vars(DropEnd)
    /\ \A i \in Workers : WF_vars(WorkerRecv(i))
    /\ \A i \in Workers : WF_vars(WorkerExit(i))
    /\ \A i \in Workers : WF_vars(WorkerApply(i))

FairSpec == Spec /\ Fairness

\* ------------------------------------------------------- derived notions
\* The sequential map of the capability over the input.
SeqMap == [j \in 1..Len(S) |-> Apply(S[j])]

\* The engine exists and the consumer has not begun to drop it.
InUse == pc \in {"ready", "refill", "send", "recv"}

\* The worker threads new() spawned.
Spawned == {i \in Workers : wstate[i] # "none"}

\* The smallest input position whose application fails (Len(S) + 1 if none).
FirstFailing ==
    IF \E j \in 1..Len(S) : Fails(S[j])
    THEN CHOOSE j \in 1..Len(S) :
            Fails(S[j]) /\ \A i \in 1..(j - 1) : ~Fails(S[i])
    ELSE Len(S) + 1

\* No element pulled from the input so far makes the capability fail.
NoFailure == \A j \in 1..cursor : ~Fails(S[j])

\* ================================================================ claims

\* C1: the values next() returns up to the first None are exactly
\* f(S[0]), f(S[1]), ... in input order, as many as there are inputs, for
\* every worker count and both built.
C1_SequentialMap ==
    /\ Len(out) <= Len(S)
    /\ \A j \in 1..Len(out) : out[j] = SeqMap[j]
    /\ noneCount > 0 => out = SeqMap

C1_Witness ==
    /\ noneCount > 0
    /\ Len(out) = MaxLen
    /\ Cardinality(Spawned) = 2
    /\ out[1] # out[2]

\* C2: the waiting queue holds the slots of a contiguous run of input
\* positions in dispatch order, ending at the last element pulled; next()
\* collects only the front slot, so results are returned in input order even
\* when a later result is ready first.
C2_FifoOrder ==
    /\ \A j \in 1..(Len(queue) - 1) : queue[j + 1] = queue[j] + 1
    /\ queue # <<>> => queue[Len(queue)] = cursor
    /\ \A j \in 1..Len(outIdx) : outIdx[j] = j
    /\ pc = "recv" => cur # 0
    /\ cur # 0 => /\ cur = Len(out) + 1
                  /\ queue # <<>> => Head(queue) = cur + 1
    /\ (cur = 0 /\ queue # <<>>) => Head(queue) = Len(out) + 1

\* Head-of-line blocking: the front result is still being computed while the
\* next one is already delivered.
C2_Witness ==
    /\ pc = "recv"
    /\ ~slots[cur].full
    /\ slots[cur].tx
    /\ queue # <<>>
    /\ slots[Head(queue)].full

\* C3 (as claimed): while the engine is in use the waiting queue is never
\* longer than the number of worker threads.
C3_QueueWithinWorkers == InUse => Len(queue) <= Len(workers)

\* C4 (as claimed): an engine built with n_workers = w >= 1 runs exactly w
\* worker threads until shutdown.
C4_ExactlyRequested ==
    (InUse /\ reqW >= 1) => (Len(workers) = reqW /\ Cardinality(Spawned) = reqW)

\* C5 (as claimed): for the same pool size n >= 1 and the same input, the
\* refill loop of Pipeline and of ScopedPipeline stops at the same queue
\* length.
C5_SameBound ==
    \A n \in 1..MaxWorkers :
        (stopLen["owned"][n] # 0 /\ stopLen["scoped"][n] # 0)
            => stopLen["owned"][n] = stopLen["scoped"][n]

\* C6: with n_workers = 0 there is no worker thread, every next() call that
\* finds an element pulls exactly that one and applies the engine's own
\* mapper to it on the caller's thread, the queue stays empty and nothing is
\* sent on the dispatch channel.
C6_SyncPath ==
    (pc # "init" /\ reqW = 0) =>
        /\ workers = <<>>
        /\ Spawned = {}
        /\ queue = <<>>
        /\ sent = 0
        /\ pending = NoItem
        /\ \A i \in Workers : applied[i] = <<>>
        /\ masterApplied = [j \in 1..cursor |-> j]
        /\ cursor = Len(out) + (IF fault = "none" THEN 0 ELSE 1)

C6_Witness ==
    /\ reqW = 0
    /\ variant = "scoped"
    /\ Len(out) = 2
    /\ noneCount = 1

\* Once drop() has ended without a failed application, the pool is drained,
\* every worker thread has left its loop and its handle was joined once.
DropJoined ==
    (pc = "released" /\ NoFailure) =>
        /\ workers = <<>>
        /\ \A i \in Spawned : wstate[i] = "exited" /\ joinCount[i] = 1

\* C7: when no application fails, dropping the engine always completes, and
\* when it has completed every worker thread has left its loop and its
\* handle was joined exactly once, however much of the sequence was consumed.
C7_DropCompletes ==
    /\ []DropJoined
    /\ (pc = "join" /\ NoFailure) ~> (pc = "released" /\ fault = "none")

\* Dropped after partial consumption, with results never collected.
C7_Witness ==
    /\ pc = "released"
    /\ NoFailure
    /\ Cardinality(Spawned) = 2
    /\ Len(out) >= 1
    /\ cursor > Len(out)
    /\ noneCount = 0

\* C8: a consumer that takes only the first k < |S| outputs and then drops
\* the engine has seen exactly f(S[0..k-1]); the shutdown raises no fault:
\* every worker still holding an item delivers into a response channel whose
\* receiver is still in the waiting queue.
C8_EarlyDrop ==
    NoFailure =>
        /\ fault = "none"
        /\ \A i \in Workers : wstate[i] # "panicked"
        /\ pc = "join" =>
              /\ out = SubSeq(SeqMap, 1, Len(out))
              /\ \A i \in Workers : wstate[i] = "busy" =>
                    /\ slots[witem[i].tx].rx
                    /\ \E j \in 1..Len(queue) : queue[j] = witem[i].tx
        /\ pc = "released" => out = SubSeq(SeqMap, 1, Len(out))

\* Drop after one output while one item is mid-flight and another is
\* finished but uncollected.
C8_Witness ==
    /\ pc = "join"
    /\ NoFailure
    /\ Len(out) >= 1
    /\ Len(out) < Len(S)
    /\ \E i \in Workers : wstate[i] = "busy"
    /\ \E j \in 1..Len(queue) : slots[queue[j]].full

\* C9: with a failing capability, every value returned is the correct one
\* for its position, no value is returned at or after the first failing
\* position k, and next() panics only in the call that requests position k.
C9_FailureAtRequest ==
    /\ Len(out) < FirstFailing
    /\ \A j \in 1..Len(out) : out[j] = SeqMap[j]
    /\ fault \in {"next", "abort"} => Len(out) = FirstFailing - 1
    /\ pc = "panic" => fault = "next"

\* next() panics at the failing position although a later result is ready.
C9_Witness ==
    /\ pc = "panic"
    /\ Len(out) = 1
    /\ Cardinality(Spawned) = 2
    /\ \E k \in 1..MaxLen : k > FirstFailing /\ slots[k].full

\* C10 (as claimed): when drop() has ended, by return or by a panic, every
\* worker thread has terminated and every handle was joined.
C10_NoThreadOutlives ==
    pc = "released" =>
        \A i \in Spawned : wstate[i] \in {"exited", "panicked"} /\ joinCount[i] = 1

\* --------------------------------------------------- more derived notions
\* Worker i panicked inside mapper.apply.
CapabilityFailed(i) ==
    /\ wstate[i] = "panicked"
    /\ applied[i] # <<>>
    /\ Fails(S[applied[i][Len(applied[i])]])

\* Worker i panicked in respond.send(..).unwrap(): its last application
\* had succeeded.
SendFaulted(i) ==
    /\ wstate[i] = "panicked"
    /\ applied[i] # <<>>
    /\ ~Fails(S[applied[i][Len(applied[i])]])

\* The slots of all items the workers have applied, and of those they hold.
AppliedSlots == UNION {{applied[i][j] : j \in 1..Len(applied[i])} : i \in Workers}
HeldSlots == {witem[i].tx : i \in {w \in Workers : wstate[w] = "busy"}}

\* No element of the input makes the capability fail.
NeverFails == \A j \in 1..Len(S) : ~Fails(S[j])

C12_OneWorkerPerItem ==
    Spawned # {} =>
        /\ masterApplied = <<>>
        /\ \A i \in Workers : \A j \in 1..(Len(applied[i]) - 1) :
              applied[i][j] < applied[i][j + 1]
        /\ \A i \in Workers : wstate[i] = "busy" =>
              /\ \A j \in 1..Len(applied[i]) : applied[i][j] < witem[i].tx
              /\ witem[i].val = S[witem[i].tx]
        /\ \A i, k \in Workers : i # k =>
              /\ \A a \in 1..Len(applied[i]), b \in 1..Len(applied[k]) :
                    applied[i][a] # applied[k][b]
              /\ \A a \in 1..Len(applied[i]) :
                    wstate[k] = "busy" => applied[i][a] # witem[k].tx
              /\ (wstate[i] = "busy" /\ wstate[k] = "busy") =>
                    witem[i].tx # witem[k].tx
        /\ AppliedSlots \cup HeldSlots = 1..sent
        /\ AppliedSlots \cap HeldSlots = {}

\* Both workers have applied items, and the first worker's are not a prefix
\* of the input.
C12_Witness ==
    /\ applied[1] # <<>>
    /\ applied[2] # <<>>
    /\ Len(applied[1]) + Len(applied[2]) = MaxLen
    /\ applied[1][1] # 1

\* C13: when no application fails, the consumer never sees a disconnected
\* channel before shutdown: there is a live receiver for every dispatch
\* send, the front slot it waits on holds a value or still has its sender,
\* and no worker thread has ended while the live dispatch sender exists.
C13_NoDisconnectBeforeDrop ==
    NoFailure =>
        /\ fault = "none"
        /\ pc # "panic"
        /\ senderAlive => \A i \in Spawned : Running(i)
        /\ pc = "send" => ReceiversAlive
        /\ pc = "recv" =>
              \/ slots[cur].full
              \/ (slots[cur].tx /\ cur \in HeldSlots)

\* A send blocked while every worker is busy; it will be accepted.
C13_Witness ==
    /\ NoFailure
    /\ pc = "send"
    /\ Cardinality(Spawned) = 2
    /\ \A i \in Spawned : wstate[i] = "busy"
    /\ cursor = Cardinality(Spawned) + 1

\* C14 (as claimed): a response channel is sent on once, by the worker that
\* holds its item, while it is empty and its receiver is alive; so a worker
\* never blocks and never faults when it delivers a result.
C14_DeliveryNeverFaults ==
    /\ \A i \in Workers : wstate[i] = "busy" =>
          /\ slots[witem[i].tx].tx
          /\ ~slots[witem[i].tx].full
          /\ SlotRoom(witem[i].tx)
    /\ \A k \in 1..MaxLen : slots[k].full => ~slots[k].tx
    /\ \A i \in Workers : ~SendFaulted(i)

\* C15: with workers, if no application fails and threads are scheduled
\* fairly, every next() call returns: a blocked dispatch send is accepted,
\* also when all workers are busy, and the wait on the front slot ends.
C15_NextReturns ==
    (pc \in {"refill", "send", "recv"} /\ NeverFails) ~> (pc = "ready" /\ cur = 0)

\* The dispatch made while every worker of a two-thread pool is busy.
C15_Witness ==
    /\ NeverFails
    /\ variant = "owned"
    /\ pc = "send"
    /\ Cardinality(Spawned) = 2
    /\ \A i \in Spawned : wstate[i] = "busy"
    /\ pending.tx = MaxLen

\* drop() has replaced the dispatch sender.
Shutdown == pc \in {"join", "released", "aborted"}

\* After shutdown began no send on the dispatch channel completes, no worker
\* takes an item, and a thread exits only from recv().
NoWorkAfterShutdown ==
    /\ sent' = sent
    /\ \A i \in Workers :
          /\ wstate'[i] = "busy" => (wstate[i] = "busy" /\ witem'[i] = witem[i])
          /\ (wstate'[i] = "exited" /\ wstate[i] # "exited") => wstate[i] = "recv"

\* A worker that leaves its item has applied it and, unless the application
\* itself failed, has delivered the result and is back in recv().
InFlightCompletes ==
    \A i \in Workers :
        (wstate[i] = "busy" /\ wstate'[i] # "busy") =>
            /\ applied'[i] = Append(applied[i], witem[i].tx)
            /\ ~Fails(witem[i].val) =>
                  /\ slots'[witem[i].tx].full
                  /\ slots'[witem[i].tx].val = Apply(witem[i].val)
                  /\ wstate'[i] = "recv"

\* C16 (as claimed): once shutdown has replaced the dispatch sender no worker
\* receives a further item and no new application starts; a worker that
\* already holds an item runs it to completion and sends its result before
\* its next receive sees the closed channel and the thread exits.
C16_ShutdownDrains ==
    [][(Shutdown /\ Shutdown') => (NoWorkAfterShutdown /\ InFlightCompletes)]_vars

\* No next() call has been made on the engine.
NoCallYet ==
    /\ pc \in {"ready", "join", "released"}
    /\ out = <<>>
    /\ noneCount = 0
    /\ fault = "none"

\* Before the first next() call nothing is pulled, dispatched or applied;
\* with workers, every element pulled has its receiver in the queue (or was
\* collected) and is dispatched before the next one is pulled.
LazyState ==
    /\ NoCallYet =>
          /\ cursor = 0
          /\ sent = 0
          /\ queue = <<>>
          /\ AppliedSlots = {}
          /\ masterApplied = <<>>
          /\ \A k \in 1..MaxLen : ~slots[k].made
    /\ (Spawned # {} /\ pc \in {"ready", "refill", "send", "recv", "panic", "join"}) =>
          cursor = Len(out) + Len(queue) + (IF cur # 0 THEN 1 ELSE 0)
    /\ (Spawned # {} /\ InUse) =>
          /\ sent = cursor - (IF pc = "send" THEN 1 ELSE 0)
          /\ pc = "send" => (pending.tx = cursor /\ queue[Len(queue)] = cursor)
          /\ \A k \in 1..MaxLen : slots[k].made <=> k <= cursor

\* C17: the engine is lazy: new() pulls and dispatches nothing, elements are
\* pulled only inside next(), one at a time, each queued and dispatched
\* before the next is pulled; an engine dropped without a next() call has
\* applied the capability to nothing.
C17_Lazy ==
    /\ []LazyState
    /\ [][cursor' # cursor =>
            \/ (pc = "refill" /\ pc' = "send" /\ cursor' = cursor + 1)
            \/ (pc = "ready" /\ workers = <<>> /\ cursor' = cursor + 1)
            \/ (pc' = "ready" /\ cursor' = 0)]_vars

\* An engine with two workers over a full input, dropped unused.
C17_Witness ==
    /\ pc = "released"
    /\ NoCallYet
    /\ Cardinality(Spawned) = 2
    /\ Len(S) = MaxLen
    /\ \A i \in Spawned : joinCount[i] = 1

\* C18: next() returns None only when the input is exhausted and the queue
\* is empty, with every result returned; after that every next() call
\* returns None again and nothing more is dispatched or applied.
C18_NoneIsFinal ==
    noneCount > 0 =>
        /\ cursor = Len(S)
        /\ queue = <<>>
        /\ cur = 0
        /\ pending = NoItem
        /\ out = SeqMap
        /\ fault = "none"
        /\ pc \in {"ready", "refill", "join", "released"}
        /\ HeldSlots = {}
        /\ Spawned # {} => (sent = Len(S) /\ AppliedSlots = 1..Len(S))
        /\ Spawned = {} => masterApplied = [j \in 1..Len(S) |-> j]

\* A second None from a two-worker engine that returned every result.
C18_Witness ==
    /\ noneCount = 2
    /\ pc = "ready"
    /\ Cardinality(Spawned) = 2
    /\ Len(out) = MaxLen

====
